---- MODULE Spec2Model ----
(***************************************************************************)
(* Personal App Integration Manager: the cron dispatcher of src/index.ts   *)
(* and the three service clients it drives (NotionService, DiscordService, *)
(* QBittorrentService).                                                     *)
(*                                                                         *)
(* Every `await` of the source is a point where the callback is suspended  *)
(* and another callback may run; an action of this module is the code that *)
(* runs between two such points.  node-cron starts the callback on every   *)
(* matching minute whether or not the previous run has returned, so several *)
(* runs of the callback (threads) may be suspended at the same time.        *)
(***************************************************************************)
EXTENDS Naturals, Sequences, FiniteSets, TLC

VARIABLES
    store,      \* the pages of the Notion database, in the order a query returns them
    config,     \* config.discord of config/env.ts: token and channelId
    cookie,     \* QBittorrentService.cookie
    isReady,    \* DiscordService.isReady
    gateway,    \* the discord.js client: "none", "connecting", "ready", "failed" or "closed"
    threads,    \* the activations of the cron callback (or of a client method)
    server,     \* the download manager: its sessions, and whether it has refused one
    observed,   \* the slots whose activations keep a history of their calls
    twin        \* an instance of the compiled qbittorrent.js given the same answers

vars == <<store, config, cookie, isReady, gateway, threads, server, observed, twin>>

----------------------------------------------------------------------------
(* Bounds *)

\* how many activations may be suspended at the same time
MaxThreads == 2
\* how many pages the database holds
MaxPages == 2
\* how many logins in a row are compared between the two builds
MaxLogins == 2
\* how many results the store puts in one response of a query (the page size
\* of the Notion API, scaled down with MaxPages)
PageSize == 1

Slots == 1..MaxThreads

----------------------------------------------------------------------------
(* Values *)

\* JavaScript null, for the string-or-null fields
Null == "<null>"

\* JavaScript truthiness of a string-or-null value
Truthy(s) == s # Null /\ s # ""

Page(n, v, ty, en) == [name |-> n, value |-> v, type |-> ty, enabled |-> en]

\* the pages a database is drawn from: every routing case of the dispatcher
Pages ==
    { Page("Check Torrents", "", "Task", TRUE),
      Page("Check Torrents", "", "Task", FALSE),
      Page("X", "hello", "DiscordMessage", TRUE),
      Page("X", "hello", "DiscordMessage", FALSE),
      Page("X", "", "Config", TRUE),
      Page("X", "", "Task", TRUE),
      Page("Check Torrents", "", "Config", TRUE),
      Page("X", "", "Mystery", TRUE) }

RECURSIVE SeqsUpTo(_, _)
SeqsUpTo(S, n) ==
    IF n = 0 THEN { <<>> }
    ELSE LET shorter == SeqsUpTo(S, n - 1)
         IN  shorter \cup { Append(s, x) : s \in { q \in shorter : Len(q) = n - 1 }, x \in S }

Stores == SeqsUpTo(Pages, MaxPages)

\* what GET /api/v2/torrents/info may carry as response.data
TorrentData == { "null", "text", "[]", "[a]" }

\* `torrents.length` raises a TypeError on null and on nothing else
HasLength(data) == data # "null"

\* what POST /api/v2/auth/login may answer: the request raises, or the
\* response carries this set-cookie header
LoginResponses ==
    { [raise |-> TRUE,  present |-> FALSE, list |-> <<>>],
      [raise |-> FALSE, present |-> FALSE, list |-> <<>>],
      [raise |-> FALSE, present |-> TRUE,  list |-> <<>>],
      [raise |-> FALSE, present |-> TRUE,  list |-> <<"">>],
      [raise |-> FALSE, present |-> TRUE,  list |-> <<"SID=a">>],
      [raise |-> FALSE, present |-> TRUE,  list |-> <<"SID=b">>] }

\* client.channels.fetch: raises, or resolves to null, a non-text channel or a TextChannel
FetchOutcomes == { "raise", "null", "voice", "text" }

SendOutcomes == { "ok", "raise" }

QueryOutcomes == { "raise", "filtered", "unfiltered" }

----------------------------------------------------------------------------
(* Threads *)

Idle ==
    [pc |-> "idle", entry |-> "none", op |-> "none", arg |-> "",
     item |-> Page("", "", "", FALSE),
     configs |-> <<>>, idx |-> 0, traced |-> FALSE, log |-> <<>>]

\* The log is a history of the calls and remote requests an activation makes,
\* each with the index of the item it is made for.  The activations are
\* interchangeable, so the history is kept for the observed slots only (the
\* first one, unless two activations are compared); the others run the same
\* code and interfere with it through cookie.
Traced(t) == t \in observed

\* seen is the state of the service that a call read on entry
LogSeen(th, ev, val, seen) ==
    IF th.traced
    THEN [th EXCEPT !.log =
              Append(@, [ev |-> ev, i |-> th.idx, val |-> val, seen |-> seen])]
    ELSE th

Log(th, ev, val) == LogSeen(th, ev, val, "")

Done(th) == [th EXCEPT !.pc = "done", !.op = "none"]

Raised(th) == [th EXCEPT !.pc = "raised", !.op = "none"]

Finished(th) == th.pc \in {"idle", "done", "raised"}

----------------------------------------------------------------------------
(* NotionService *)

\* the server side of the `Enabled equals true` filter of databases.query:
\* the positions of the store whose page has the checkbox set
RECURSIVE EnabledPositions(_, _)
EnabledPositions(st, k) ==
    IF k > Len(st) THEN <<>>
    ELSE IF st[k].enabled THEN <<k>> \o EnabledPositions(st, k + 1)
    ELSE EnabledPositions(st, k + 1)

AllPositions(st) == [k \in 1..Len(st) |-> k]

\* the callback of response.results.map: one NotionConfigItem per page
MapPage(id, page) ==
    [id        |-> id,
     name      |-> IF page.name = "" THEN "Untitled" ELSE page.name,
     value     |-> page.value,
     isEnabled |-> page.enabled,
     type      |-> IF page.type = "" THEN "Unknown" ELSE page.type]

\* mutant of getConfigurations: a failed query yields the unfiltered pages
\* instead of the empty list
getConfigurations_NoEmptyOnError(st, outcome) ==
    LET positions == IF outcome = "filtered" THEN EnabledPositions(st, 1)
                     ELSE AllPositions(st)
    IN  [k \in 1..Len(positions) |-> MapPage(positions[k], st[positions[k]])]

\* the first n elements of a sequence
FirstN(sq, n) == SubSeq(sq, 1, IF Len(sq) < n THEN Len(sq) ELSE n)

\* what getConfigurations returns for an outcome of the query; "first page"
\* is a response whose results stop at the page size, with has_more set
getConfigurations(st, outcome) ==
    LET positions == CASE outcome = "filtered" -> EnabledPositions(st, 1)
                       [] outcome = "first page" -> FirstN(EnabledPositions(st, 1), PageSize)
                       [] OTHER -> AllPositions(st)
    IN  IF outcome = "raise" THEN <<>>
        ELSE [k \in 1..Len(positions) |-> MapPage(positions[k], st[positions[k]])]

\* the type parameter of addItem left out by the caller
Omitted == "<undefined>"

\* NotionService.addItem up to its await: the page that pages.create is sent
addItem(th, name, value, type) ==
    [LogSeen([th EXCEPT !.op = "addItem",
                        !.item = Page(name, value,
                                      IF type = Omitted THEN "Info" ELSE type, TRUE)],
             "addItem", name, type) EXCEPT !.pc = "create"]

\* mutant of AfterCreate: no catch block, a raise of pages.create leaves addItem
AfterCreate_NoCatch(th, outcome) ==
    LET t1 == Log(th, "create:response", outcome)
    IN  IF outcome = "raise" THEN Raised(t1)
        ELSE Done(Log(t1, "addItem:return", "void"))

\* addItem lines 84-88: from the answer of pages.create to the return
AfterCreate(th, outcome) ==
    LET t1 == Log(Log(th, "create:response", outcome), "addItem:return", "void")
    IN  IF th.entry = "add then get"
        THEN [Log([t1 EXCEPT !.op = "getConfigurations"], "query", "") EXCEPT !.pc = "query"]
        ELSE Done(t1)

\* getConfigurations has returned to a direct caller
AfterGetConfigurations(th) ==
    Done(Log(th, "getConfigurations:return",
             IF th.configs = <<>> THEN "[]" ELSE "items"))

----------------------------------------------------------------------------
(* The dispatcher's routing and the client methods it calls.  Each operator *)
(* takes a thread and yields the thread as it is when it next suspends (or  *)
(* ends); ck is the value of this.cookie at that moment.                    *)

Label == "Message from Notion: "

\* mutant of Skips: the enabled check is missing
Skips_Never(c) == FALSE

\* index.ts line 21
Skips(c) == ~c.isEnabled

\* mutant of WantsTorrents: the name is not compared
WantsTorrents_AnyTask(c) == c.type = "Task"

\* index.ts line 26
WantsTorrents(c) == c.name = "Check Torrents" /\ c.type = "Task"

\* index.ts line 36
WantsMessage(c) == c.type = "DiscordMessage"

\* index.ts line 37: the template literal
MessageText(c) == Label \o c.value

RECURSIVE Route(_, _)

\* the end of one iteration of the for loop: on to the next item
NextItem(th, ck) == Route([th EXCEPT !.idx = @ + 1, !.op = "none", !.arg = ""], ck)

\* a client method called by a harness returns to it; one called by the
\* cron callback returns into the loop
AfterSendMessage(th, ck) ==
    LET t1 == Log(th, "sendMessage:return", "void")
    IN  IF th.entry = "tick" THEN NextItem(t1, ck) ELSE Done(t1)

\* what a call of sendMessage reads of this.isReady
ReadySeen == IF isReady THEN "ready" ELSE "not ready"

\* what a call of getTorrents or addTorrent reads of this.cookie
SessionSeen(ck) == IF Truthy(ck) THEN "session" ELSE "no session"

\* mutant of sendMessage: nothing is sent while the download manager's
\* session cookie is unset
sendMessage_NeedsSession(th, message, ck) ==
    LET t1 == LogSeen([th EXCEPT !.op = "sendMessage", !.arg = message],
                      "sendMessage", message, ReadySeen)
    IN  IF ~isReady \/ ~Truthy(ck) THEN AfterSendMessage(t1, ck)
        ELSE IF ~Truthy(config.channelId) THEN AfterSendMessage(t1, ck)
        ELSE [Log(t1, "fetch", config.channelId) EXCEPT !.pc = "fetch"]

\* mutant of sendMessage: the channel fetch is started and not awaited, the
\* loop going on at once
sendMessage_NotAwaited(th, message, ck) ==
    LET t1 == LogSeen([th EXCEPT !.op = "sendMessage", !.arg = message],
                      "sendMessage", message, ReadySeen)
    IN  IF ~isReady THEN AfterSendMessage(t1, ck)
        ELSE IF ~Truthy(config.channelId) THEN AfterSendMessage(t1, ck)
        ELSE AfterSendMessage(Log(t1, "fetch", config.channelId), ck)

\* mutant of sendMessage: isReady is not read
sendMessage_NoReadyCheck(th, message, ck) ==
    LET t1 == LogSeen([th EXCEPT !.op = "sendMessage", !.arg = message],
                      "sendMessage", message, ReadySeen)
    IN  IF ~Truthy(config.channelId) THEN AfterSendMessage(t1, ck)
        ELSE [Log(t1, "fetch", config.channelId) EXCEPT !.pc = "fetch"]

\* DiscordService.sendMessage up to its first await
sendMessage(th, message, ck) ==
    LET t1 == LogSeen([th EXCEPT !.op = "sendMessage", !.arg = message],
                      "sendMessage", message, ReadySeen)
    IN  IF ~isReady THEN AfterSendMessage(t1, ck)
        ELSE IF ~Truthy(config.channelId) THEN AfterSendMessage(t1, ck)
        ELSE [Log(t1, "fetch", config.channelId) EXCEPT !.pc = "fetch"]

\* mutant of AfterFetch: any channel that exists is posted to
AfterFetch_NoTextCheck(th, outcome, ck) ==
    LET t1 == Log(th, "fetch:response", outcome)
    IN  IF outcome \in {"text", "voice"}
        THEN [Log(t1, "send", th.arg) EXCEPT !.pc = "send"]
        ELSE AfterSendMessage(t1, ck)

\* sendMessage from the answer of channels.fetch to its next await
AfterFetch(th, outcome, ck) ==
    LET t1 == Log(th, "fetch:response", outcome)
    IN  IF outcome = "text"
        THEN [Log(t1, "send", th.arg) EXCEPT !.pc = "send"]
        ELSE AfterSendMessage(t1, ck)

\* mutant of AfterSend: a post that raised is made again
AfterSend_RetriesOnRaise(th, outcome, ck) ==
    LET t1 == Log(th, "send:response", outcome)
    IN  IF outcome = "raise" THEN [Log(t1, "send", th.arg) EXCEPT !.pc = "send"]
        ELSE AfterSendMessage(t1, ck)

\* sendMessage from the answer of channel.send to its end
AfterSend(th, outcome, ck) ==
    AfterSendMessage(Log(th, "send:response", outcome), ck)

\* index.ts lines 36-38: the second if of the loop body
SecondIf(th, ck) ==
    LET c == th.configs[th.idx]
    IN  IF WantsMessage(c) THEN sendMessage(th, MessageText(c), ck)
        ELSE NextItem(th, ck)

\* getTorrents has returned data: index.ts lines 28-33, then the second if
AfterGetTorrents(th, data, ck) ==
    LET t1 == Log(th, "getTorrents:return", data)
    IN  IF th.entry # "tick" THEN Done(t1)
        ELSE IF ~HasLength(data) THEN Raised(t1)
        ELSE SecondIf([t1 EXCEPT !.op = "none"], ck)

\* addTorrent has returned ok
AfterAddTorrent(th, ok) ==
    Done(Log(th, "addTorrent:return", IF ok THEN "true" ELSE "false"))

\* mutant of AfterAdd: the catch block returns true as well
AfterAdd_AlwaysTrue(th, outcome) ==
    AfterAddTorrent(Log(th, "add:response", outcome), TRUE)

\* addTorrent lines 73-83: from the answer of the POST to the return
AfterAdd(th, outcome) ==
    AfterAddTorrent(Log(th, "add:response", outcome), outcome = "ok")

\* getTorrents lines 43-53: the value returned for the answer of the GET
ListResult(outcome) == IF outcome = "raise" THEN "[]" ELSE outcome

\* the GET of getTorrents is issued with the cookie held
ListRequest(th, ck) == [Log(th, "list", ck) EXCEPT !.pc = "list", !.arg = ck]

\* the try block of addTorrent up to its await; hasFormData is whether the
\* runtime defines the global FormData that line 63 constructs
AddRequest(th, ck, hasFormData) ==
    IF ~hasFormData THEN AfterAddTorrent(Log(th, "add:skipped", "ReferenceError"), FALSE)
    ELSE [Log(th, "add", th.arg) EXCEPT !.pc = "add"]

\* QBittorrentService.login up to its await
login(th) == [Log(th, "login", "") EXCEPT !.pc = "login"]

\* mutant of getTorrents: it logs in on every call, cookie held or not
getTorrents_AlwaysLogin(th, ck) ==
    login(LogSeen([th EXCEPT !.op = "getTorrents"], "getTorrents", ck, SessionSeen(ck)))

\* QBittorrentService.getTorrents up to its first await
getTorrents(th, ck) ==
    LET t1 == LogSeen([th EXCEPT !.op = "getTorrents"], "getTorrents", ck,
                      SessionSeen(ck))
    IN  IF ~Truthy(ck) THEN login(t1) ELSE ListRequest(t1, ck)

\* QBittorrentService.addTorrent up to its first await
addTorrent(th, magnetLink, ck, hasFormData) ==
    LET t1 == LogSeen([th EXCEPT !.op = "addTorrent", !.arg = magnetLink],
                      "addTorrent", ck, SessionSeen(ck))
    IN  IF ~Truthy(ck) THEN login(t1) ELSE AddRequest(t1, ck, hasFormData)

\* the answer r of the login request, as login tells the cases apart
LoginOutcome(r) ==
    IF r.raise THEN "raise"
    ELSE IF ~r.present THEN "no set-cookie"
    ELSE IF Len(r.list) > 0 /\ Truthy(r.list[1]) THEN "cookie"
    ELSE "empty set-cookie"

\* JavaScript undefined: an element read past the end of an array
Undefined == "<undefined>"

\* qbittorrent.js lines 57-61: the cookie held after the answer r
LoginCookieJs(r, ck) ==
    IF r.raise \/ ~r.present THEN ck
    ELSE IF Len(r.list) > 0 THEN r.list[1]
    ELSE Undefined

\* qbittorrent.js lines 57-66: the boolean returned for the answer r
LoginResultJs(r, ck) == ~r.raise /\ r.present

\* mutant of LoginCookie: the header is stored as a string whether or not
\* the response has one
LoginCookie_StoresAbsentHeader(r, ck) ==
    IF r.raise THEN ck
    ELSE IF ~r.present THEN "undefined"
    ELSE IF Len(r.list) > 0 /\ Truthy(r.list[1]) THEN r.list[1]
    ELSE Null

\* login lines 26-34: the cookie held after the answer r
LoginCookie(r, ck) ==
    IF r.raise \/ ~r.present THEN ck
    ELSE IF Len(r.list) > 0 /\ Truthy(r.list[1]) THEN r.list[1]
    ELSE Null

\* login lines 26-34: the boolean returned for the answer r
LoginResult(r, ck) ==
    IF r.raise \/ ~r.present THEN FALSE
    ELSE Truthy(LoginCookie(r, ck))

\* mutant of AfterLogin: getTorrents goes on to its request whatever login returned
AfterLogin_IgnoresResult(th, ok, ck, hasFormData) ==
    LET t1 == Log(th, "login:return", IF ok THEN "true" ELSE "false")
    IN  CASE th.op = "getTorrents" -> ListRequest(t1, ck)
          [] th.op = "addTorrent" ->
               IF ~ok THEN AfterAddTorrent(t1, FALSE) ELSE AddRequest(t1, ck, hasFormData)
          [] OTHER -> Done(t1)

\* login has returned ok to its caller, which holds cookie ck
AfterLogin(th, ok, ck, hasFormData) ==
    LET t1 == Log(th, "login:return", IF ok THEN "true" ELSE "false")
    IN  CASE th.op = "getTorrents" ->
               IF ~ok THEN AfterGetTorrents(t1, "[]", ck) ELSE ListRequest(t1, ck)
          [] th.op = "addTorrent" ->
               IF ~ok THEN AfterAddTorrent(t1, FALSE) ELSE AddRequest(t1, ck, hasFormData)
          [] OTHER -> Done(t1)

\* mutant of Route: an enabled Task item other than Check Torrents has its
\* value submitted as a transfer
Route_AddsTorrents(th, ck) ==
    IF th.idx > Len(th.configs) THEN Done(th)
    ELSE LET c == th.configs[th.idx]
         IN  IF Skips(c) THEN NextItem(th, ck)
             ELSE IF c.type = "Task" /\ ~WantsTorrents(c)
                  THEN addTorrent(th, c.value, ck, TRUE)
             ELSE IF WantsTorrents(c) THEN getTorrents(th, ck)
             ELSE SecondIf(th, ck)

\* index.ts lines 20-39: the for loop from item idx on, up to the next await
Route(th, ck) ==
    IF th.idx > Len(th.configs) THEN Done(th)
    ELSE LET c == th.configs[th.idx]
         IN  IF Skips(c) THEN NextItem(th, ck)
             ELSE IF WantsTorrents(c) THEN getTorrents(th, ck)
             ELSE SecondIf(th, ck)

----------------------------------------------------------------------------
(* Actions of the scheduled dispatcher *)

\* mutant of Tick: the callback is not started while an earlier run of it
\* has not returned
Tick_WaitsForPrevious(t) ==
    /\ \A u \in Slots : Finished(threads[u])
    /\ threads' = [threads EXCEPT ![t] =
                     Log([Idle EXCEPT !.pc = "query", !.entry = "tick",
                                      !.op = "getConfigurations",
                                      !.traced = Traced(t)], "query", "")]
    /\ UNCHANGED <<twin, server, observed, store, config, cookie, isReady, gateway>>

\* node-cron fires: index.ts lines 14-18, up to the await of the query
Tick(t) ==
    /\ Finished(threads[t])
    /\ threads' = [threads EXCEPT ![t] =
                     Log([Idle EXCEPT !.pc = "query", !.entry = "tick",
                                      !.op = "getConfigurations",
                                      !.traced = Traced(t)], "query", "")]
    /\ UNCHANGED <<twin, server, observed, store, config, cookie, isReady, gateway>>

\* the query is answered: the rest of getConfigurations, then the loop
QueryAnswer(t, outcome) ==
    LET th == threads[t]
        t1 == Log([th EXCEPT !.configs = getConfigurations(store, outcome)],
                  "query:response", outcome)
    IN  threads' = [threads EXCEPT ![t] =
            IF th.entry = "tick" THEN Route([t1 EXCEPT !.idx = 1, !.op = "none"], cookie)
            ELSE AfterGetConfigurations(t1)]

QueryReturn(t) ==
    /\ threads[t].pc = "query"
    /\ \E outcome \in QueryOutcomes : QueryAnswer(t, outcome)
    /\ UNCHANGED <<twin, server, observed, store, config, cookie, isReady, gateway>>

\* the query is answered by a store that honours the filter and answers one
\* page of results at a time
QueryPageReturn(t) ==
    /\ threads[t].pc = "query"
    /\ \E outcome \in {"filtered", "first page"} : QueryAnswer(t, outcome)
    /\ UNCHANGED <<twin, server, observed, store, config, cookie, isReady, gateway>>

\* POST /api/v2/auth/login is answered
LoginAnswer(t, r, hasFormData) ==
    /\ cookie' = LoginCookie(r, cookie)
    /\ threads' = [threads EXCEPT ![t] =
            AfterLogin(Log(threads[t], "login:response", LoginOutcome(r)),
                       LoginResult(r, cookie),
                       LoginCookie(r, cookie), hasFormData)]

\* POST /api/v2/auth/login is answered by a remote that may answer anything
LoginReturn(t) ==
    /\ threads[t].pc = "login"
    /\ \E r \in LoginResponses, hasFormData \in BOOLEAN : LoginAnswer(t, r, hasFormData)
    /\ UNCHANGED <<twin, server, observed, store, config, isReady, gateway>>

\* GET /api/v2/torrents/info is answered, or raises
ListAnswer(t, outcome) ==
    threads' = [threads EXCEPT ![t] =
        AfterGetTorrents(Log(threads[t], "list:response", outcome),
                         ListResult(outcome), cookie)]

\* GET /api/v2/torrents/info is answered by a remote that may answer
\* anything, or raises
ListReturn(t) ==
    /\ threads[t].pc = "list"
    /\ \E outcome \in TorrentData \cup {"raise"} : ListAnswer(t, outcome)
    /\ UNCHANGED <<twin, server, observed, store, config, cookie, isReady, gateway>>

\* client.channels.fetch is answered, or raises
FetchReturn(t) ==
    /\ threads[t].pc = "fetch"
    /\ \E outcome \in FetchOutcomes :
         threads' = [threads EXCEPT ![t] = AfterFetch(threads[t], outcome, cookie)]
    /\ UNCHANGED <<twin, server, observed, store, config, cookie, isReady, gateway>>

\* channel.send is answered, or raises
SendReturn(t) ==
    /\ threads[t].pc = "send"
    /\ \E outcome \in SendOutcomes :
         threads' = [threads EXCEPT ![t] = AfterSend(threads[t], outcome, cookie)]
    /\ UNCHANGED <<twin, server, observed, store, config, cookie, isReady, gateway>>

\* the gateway emits 'ready': the once-listener of the constructor runs
GatewayReady ==
    /\ gateway = "connecting"
    /\ gateway' = "ready"
    /\ isReady' = TRUE
    /\ UNCHANGED <<twin, server, observed, store, config, cookie, threads>>

\* client.login rejects: the catch of the constructor logs it
GatewayLoginFails ==
    /\ gateway = "connecting"
    /\ gateway' = "failed"
    /\ UNCHANGED <<twin, server, observed, store, config, cookie, isReady, threads>>

\* mutant of GatewayDisconnects: losing the connection clears the flag
GatewayDisconnects_ResetsReady ==
    /\ gateway = "ready"
    /\ gateway' = "closed"
    /\ isReady' = FALSE
    /\ UNCHANGED <<twin, server, observed, store, config, cookie, threads>>

\* the connection to the gateway is lost after 'ready'; the constructor
\* registers no listener but the once('ready') one, so nothing is written
GatewayDisconnects ==
    /\ gateway = "ready"
    /\ gateway' = "closed"
    /\ UNCHANGED <<twin, server, observed, store, config, cookie, isReady, threads>>

\* The download manager as a server that keeps its sessions: it accepts every
\* login and answers it with a session id it has not expired, it answers a
\* list request that carries a valid session, and refuses any other.
SessionIds == { "SID=a", "SID=b" }

ServerUp == [valid |-> {}, dead |-> {}, refused |-> FALSE]

LoginAccepted(t) ==
    /\ threads[t].pc = "login"
    /\ \E sid \in SessionIds \ server.dead :
         /\ LoginAnswer(t, [raise |-> FALSE, present |-> TRUE, list |-> <<sid>>], TRUE)
         /\ server' = [server EXCEPT !.valid = @ \cup {sid}]
    /\ UNCHANGED <<twin, observed, store, config, isReady, gateway>>

\* the list request carries threads[t].arg as its Cookie header
ListAnswered(t) ==
    /\ threads[t].pc = "list"
    /\ IF threads[t].arg \in server.valid
       THEN /\ \E data \in TorrentData \ {"null"} : ListAnswer(t, data)
            /\ UNCHANGED server
       ELSE /\ ListAnswer(t, "raise")
            /\ server' = [server EXCEPT !.refused = TRUE]
    /\ UNCHANGED <<twin, observed, store, config, cookie, isReady, gateway>>

\* the sessions of the download manager expire (it restarts, or they time
\* out); this happens before its first refusal, not after
SessionExpires ==
    /\ server.valid # {}
    /\ ~server.refused
    /\ server' = [server EXCEPT !.valid = {}, !.dead = @ \cup server.valid]
    /\ UNCHANGED <<twin, observed, store, config, cookie, isReady, gateway, threads>>

\* a tick of the observed slot fires only after the download manager has
\* refused a list request; the ticks of the other slots fire at any time
TickAfterRefusal(t) ==
    /\ Traced(t) => server.refused
    /\ Tick(t)

\* the pcs at which an activation awaits a remote call
Awaiting == { "query", "login", "list", "fetch", "send" }

\* the remote call that activation t awaits never returns: no timeout is set
\* on any of the clients, so the await never ends
RemoteHangs(t) ==
    /\ threads[t].pc \in Awaiting
    /\ threads' = [threads EXCEPT ![t].pc = "hung"]
    /\ UNCHANGED <<twin, server, observed, store, config, cookie, isReady, gateway>>

\* the values a person editing the database gives a message
Values == { "hello", "bye" }

\* a person edits the database between or during ticks: a message page is
\* enabled or disabled, or its value is rewritten
StoreEdited ==
    /\ \E k \in DOMAIN store :
         /\ store[k].type = "DiscordMessage"
         /\ \/ store' = [store EXCEPT ![k].enabled = ~@]
            \/ \E v \in Values \ {store[k].value} : store' = [store EXCEPT ![k].value = v]
    /\ UNCHANGED <<twin, server, observed, config, cookie, isReady, gateway, threads>>

\* no compiled instance is run
NoTwin == [responses |-> <<>>, done |-> 0, cookie |-> Null, ts |-> FALSE, js |-> FALSE]

\* login is called on an instance of qbittorrent.ts and on one of
\* qbittorrent.js, and both requests get the next answer of twin.responses
LoginBoth ==
    /\ twin.done < Len(twin.responses)
    /\ LET r == twin.responses[twin.done + 1]
       IN  /\ cookie' = LoginCookie(r, cookie)
           /\ twin' = [twin EXCEPT !.done = @ + 1,
                                   !.cookie = LoginCookieJs(r, twin.cookie),
                                   !.ts = LoginResult(r, cookie),
                                   !.js = LoginResultJs(r, twin.cookie)]
    /\ UNCHANGED <<server, observed, store, config, isReady, gateway, threads>>

\* POST /api/v2/torrents/add is answered, or raises
AddReturn(t) ==
    /\ threads[t].pc = "add"
    /\ \E outcome \in SendOutcomes :
         threads' = [threads EXCEPT ![t] = AfterAdd(threads[t], outcome)]
    /\ UNCHANGED <<twin, server, observed, store, config, cookie, isReady, gateway>>

----------------------------------------------------------------------------
(* The public methods of the clients called directly, as a test or another *)
(* program using the classes would call them.                               *)

MagnetLinks == { "magnet:?xt=a" }

Messages == { "hello" }

Call(t, method) ==
    [Idle EXCEPT !.entry = "api", !.op = method, !.traced = Traced(t)]

CallLogin(t) ==
    /\ Finished(threads[t])
    /\ threads' = [threads EXCEPT ![t] = login(Call(t, "login"))]
    /\ UNCHANGED <<twin, server, observed, store, config, cookie, isReady, gateway>>

CallGetTorrents(t) ==
    /\ Finished(threads[t])
    /\ threads' = [threads EXCEPT ![t] = getTorrents(Call(t, "getTorrents"), cookie)]
    /\ UNCHANGED <<twin, server, observed, store, config, cookie, isReady, gateway>>

CallAddTorrent(t) ==
    /\ Finished(threads[t])
    /\ \E magnetLink \in MagnetLinks, hasFormData \in BOOLEAN :
         threads' = [threads EXCEPT ![t] =
             addTorrent(Call(t, "addTorrent"), magnetLink, cookie, hasFormData)]
    /\ UNCHANGED <<twin, server, observed, store, config, cookie, isReady, gateway>>

CallGetConfigurations(t) ==
    /\ Finished(threads[t])
    /\ threads' = [threads EXCEPT ![t] =
                     Log([Call(t, "getConfigurations") EXCEPT !.pc = "query"],
                         "query", "")]
    /\ UNCHANGED <<twin, server, observed, store, config, cookie, isReady, gateway>>

ItemNames == { "X" }

ItemTypes == { "DiscordMessage", Omitted }

CallAddItem(t) ==
    /\ Finished(threads[t])
    /\ \E name \in ItemNames, value \in Messages, type \in ItemTypes :
         threads' = [threads EXCEPT ![t] =
             addItem(Call(t, "addItem"), name, value, type)]
    /\ UNCHANGED <<twin, server, observed, store, config, cookie, isReady, gateway>>

\* a caller awaits addItem and then getConfigurations
CallAddThenGet(t) ==
    /\ Finished(threads[t])
    /\ \E name \in ItemNames, value \in Messages, type \in ItemTypes :
         threads' = [threads EXCEPT ![t] =
             addItem([Call(t, "addItem") EXCEPT !.entry = "add then get"],
                     name, value, type)]
    /\ UNCHANGED <<twin, server, observed, store, config, cookie, isReady, gateway>>

\* pages.create is answered, or raises; the database takes the page when it
\* answers (it holds at most MaxPages pages, and refuses beyond)
CreateReturn(t) ==
    /\ threads[t].pc = "create"
    /\ \E outcome \in IF Len(store) < MaxPages THEN SendOutcomes ELSE {"raise"} :
         /\ store' = IF outcome = "ok" THEN Append(store, threads[t].item) ELSE store
         /\ threads' = [threads EXCEPT ![t] = AfterCreate(threads[t], outcome)]
    /\ UNCHANGED <<twin, server, observed, config, cookie, isReady, gateway>>

CallSendMessage(t) ==
    /\ Finished(threads[t])
    /\ \E message \in Messages :
         threads' = [threads EXCEPT ![t] =
             sendMessage(Call(t, "sendMessage"), message, cookie)]
    /\ UNCHANGED <<twin, server, observed, store, config, cookie, isReady, gateway>>

----------------------------------------------------------------------------
(* Specifications *)

\* mutant of Init: the constructor calls client.login without testing the token
Init_LoginWithoutToken ==
    /\ store \in Stores
    /\ config \in [token : {"", "tok"}, channelId : {"", "chan"}]
    /\ cookie = Null
    /\ isReady = FALSE
    /\ gateway = "connecting"
    /\ threads = [t \in Slots |-> Idle]
    /\ server = ServerUp
    /\ twin = NoTwin
    /\ observed = {1}

\* the state after main() has constructed the three services
Init ==
    /\ store \in Stores
    /\ config \in [token : {"", "tok"}, channelId : {"", "chan"}]
    /\ cookie = Null
    /\ isReady = FALSE
    /\ gateway = IF Truthy(config.token) THEN "connecting" ELSE "none"
    /\ threads = [t \in Slots |-> Idle]
    /\ server = ServerUp
    /\ twin = NoTwin
    /\ observed = {1}

Next ==
    \/ \E t \in Slots : Tick(t)
    \/ \E t \in Slots : QueryReturn(t)
    \/ \E t \in Slots : LoginReturn(t)
    \/ \E t \in Slots : ListReturn(t)
    \/ \E t \in Slots : FetchReturn(t)
    \/ \E t \in Slots : SendReturn(t)
    \/ GatewayReady
    \/ GatewayLoginFails
    \/ GatewayDisconnects

Spec == Init /\ [][Next]_vars

\* the services after construction, with no scheduler
InitClient ==
    /\ store = <<>>
    /\ config \in [token : {"", "tok"}, channelId : {"", "chan"}]
    /\ cookie = Null
    /\ isReady = FALSE
    /\ gateway = IF Truthy(config.token) THEN "connecting" ELSE "none"
    /\ threads = [t \in Slots |-> Idle]
    /\ server = ServerUp
    /\ twin = NoTwin
    /\ observed = {1}

NextClient ==
    \/ \E t \in Slots : CallLogin(t)
    \/ \E t \in Slots : CallGetTorrents(t)
    \/ \E t \in Slots : CallAddTorrent(t)
    \/ \E t \in Slots : CallSendMessage(t)
    \/ \E t \in Slots : CallGetConfigurations(t)
    \/ \E t \in Slots : CallAddItem(t)
    \/ \E t \in Slots : QueryReturn(t)
    \/ \E t \in Slots : CreateReturn(t)
    \/ \E t \in Slots : LoginReturn(t)
    \/ \E t \in Slots : ListReturn(t)
    \/ \E t \in Slots : AddReturn(t)
    \/ \E t \in Slots : FetchReturn(t)
    \/ \E t \in Slots : SendReturn(t)
    \/ GatewayReady
    \/ GatewayLoginFails
    \/ GatewayDisconnects

SpecClient == InitClient /\ [][NextClient]_vars

\* the dispatcher against a download manager that keeps its sessions; the
\* database holds an enabled Check Torrents task and Discord is not configured
InitSession ==
    /\ store \in { st \in Stores : \E k \in DOMAIN st : st[k] = Page("Check Torrents", "", "Task", TRUE) }
    /\ config = [token |-> "", channelId |-> ""]
    /\ cookie = Null
    /\ isReady = FALSE
    /\ gateway = "none"
    /\ threads = [t \in Slots |-> Idle]
    /\ server = ServerUp
    /\ twin = NoTwin
    /\ observed = {1}

NextSession ==
    \/ \E t \in Slots : TickAfterRefusal(t)
    \/ \E t \in Slots : QueryReturn(t)
    \/ \E t \in Slots : LoginAccepted(t)
    \/ \E t \in Slots : ListAnswered(t)
    \/ SessionExpires

SpecSession == InitSession /\ [][NextSession]_vars

\* the dispatcher with the history of every activation kept, so that two
\* ticks can be compared; the database holds a message and a Check Torrents
\* task, in either order, and Discord is configured
InitPair ==
    /\ store \in { << Page("X", "hello", "DiscordMessage", TRUE),
                      Page("Check Torrents", "", "Task", TRUE) >>,
                   << Page("Check Torrents", "", "Task", TRUE),
                      Page("X", "hello", "DiscordMessage", TRUE) >> }
    /\ config = [token |-> "tok", channelId |-> "chan"]
    /\ cookie = Null
    /\ isReady = FALSE
    /\ gateway = "connecting"
    /\ threads = [t \in Slots |-> Idle]
    /\ server = ServerUp
    /\ twin = NoTwin
    /\ observed = Slots

SpecPair == InitPair /\ [][Next]_vars

\* getConfigurations called directly on a database of any content, whose
\* store honours the filter and pages its results
InitQuery ==
    /\ store \in Stores
    /\ config = [token |-> "", channelId |-> ""]
    /\ cookie = Null
    /\ isReady = FALSE
    /\ gateway = "none"
    /\ threads = [t \in Slots |-> Idle]
    /\ server = ServerUp
    /\ twin = NoTwin
    /\ observed = {1}

NextQuery ==
    \/ \E t \in Slots : CallGetConfigurations(t)
    \/ \E t \in Slots : QueryPageReturn(t)

SpecQuery == InitQuery /\ [][NextQuery]_vars

\* addItem followed by getConfigurations, on a database that starts empty
\* and whose store honours the filter and pages its results
InitAddThenGet ==
    /\ store = <<>>
    /\ config = [token |-> "", channelId |-> ""]
    /\ cookie = Null
    /\ isReady = FALSE
    /\ gateway = "none"
    /\ threads = [t \in Slots |-> Idle]
    /\ server = ServerUp
    /\ twin = NoTwin
    /\ observed = {1}

NextAddThenGet ==
    \/ \E t \in Slots : CallAddThenGet(t)
    \/ \E t \in Slots : CreateReturn(t)
    \/ \E t \in Slots : QueryPageReturn(t)

SpecAddThenGet == InitAddThenGet /\ [][NextAddThenGet]_vars

\* login called on the two builds of QBittorrentService, for every sequence
\* of answers of the download manager
InitTwin ==
    /\ store = <<>>
    /\ config = [token |-> "", channelId |-> ""]
    /\ cookie = Null
    /\ isReady = FALSE
    /\ gateway = "none"
    /\ threads = [t \in Slots |-> Idle]
    /\ server = ServerUp
    /\ observed = {}
    /\ \E rs \in SeqsUpTo(LoginResponses, MaxLogins) : twin = [NoTwin EXCEPT !.responses = rs]

NextTwin == LoginBoth

SpecTwin == InitTwin /\ [][NextTwin]_vars

\* the dispatcher while the database is being edited; it starts with a Check
\* Torrents task and a message, and Discord is configured
InitEdit ==
    /\ store = << Page("Check Torrents", "", "Task", TRUE),
                  Page("X", "hello", "DiscordMessage", TRUE) >>
    /\ config = [token |-> "tok", channelId |-> "chan"]
    /\ cookie = Null
    /\ isReady = FALSE
    /\ gateway = "connecting"
    /\ threads = [t \in Slots |-> Idle]
    /\ server = ServerUp
    /\ twin = NoTwin
    /\ observed = {1}

NextEdit ==
    \/ Next
    \/ StoreEdited

SpecEdit == InitEdit /\ [][NextEdit]_vars

\* the dispatcher when a remote call of an activation of the first slot may
\* never return; no history is kept
InitHung ==
    /\ store \in Stores
    /\ config \in [token : {"", "tok"}, channelId : {"", "chan"}]
    /\ cookie = Null
    /\ isReady = FALSE
    /\ gateway = IF Truthy(config.token) THEN "connecting" ELSE "none"
    /\ threads = [t \in Slots |-> Idle]
    /\ server = ServerUp
    /\ twin = NoTwin
    /\ observed = {}

NextHung ==
    \/ Next
    \/ RemoteHangs(1)

\* cron fires every minute, and the remote calls of the other activations
\* are answered
FairOthers ==
    \A t \in Slots \ {1} :
        /\ WF_vars(Tick(t))
        /\ WF_vars(QueryReturn(t))
        /\ WF_vars(LoginReturn(t))
        /\ WF_vars(ListReturn(t))
        /\ WF_vars(FetchReturn(t))
        /\ WF_vars(SendReturn(t))

SpecHung == InitHung /\ [][NextHung]_vars /\ FairOthers

----------------------------------------------------------------------------
(* Properties *)

\* how many entries of a log record event ev for item i
CountEv(lg, ev, i) == Cardinality({ k \in DOMAIN lg : lg[k].ev = ev /\ lg[k].i = i })

\* how many entries of a log record event ev
CountAll(lg, ev) == Cardinality({ k \in DOMAIN lg : lg[k].ev = ev })

\* a recorded run of the cron callback that has ended, normally or by raising
TickOver(th) == th.traced /\ th.entry = "tick" /\ th.pc \in {"done", "raised"}

\* C1: no call or remote request of a tick is made on behalf of a fetched
\* item whose isEnabled is false.
C1_DisabledItemsUntouched ==
    \A t \in Slots :
        LET th == threads[t]
        IN  \A k \in DOMAIN th.log :
                th.log[k].i \in DOMAIN th.configs => th.configs[th.log[k].i].isEnabled

\* C1 witness: a finished tick fetched a disabled DiscordMessage item and an
\* enabled one after it, and made its call for the enabled one.
C1_Witness ==
    \E t \in Slots :
        LET th == threads[t]
        IN  /\ TickOver(th) /\ th.pc = "done"
            /\ Len(th.configs) = 2
            /\ ~th.configs[1].isEnabled /\ th.configs[1].type = "DiscordMessage"
            /\ th.configs[2].isEnabled /\ th.configs[2].type = "DiscordMessage"
            /\ CountEv(th.log, "sendMessage", 2) = 1

\* C2: when a tick is over, every enabled DiscordMessage item it fetched has
\* exactly one sendMessage call, whose text is the label followed by the value.
C2_ExactlyOneSendPerMessageItem ==
    \A t \in Slots :
        LET th == threads[t]
        IN  TickOver(th) =>
                \A i \in DOMAIN th.configs :
                    (th.configs[i].isEnabled /\ th.configs[i].type = "DiscordMessage") =>
                        /\ CountEv(th.log, "sendMessage", i) = 1
                        /\ \A k \in DOMAIN th.log :
                               (th.log[k].ev = "sendMessage" /\ th.log[k].i = i) =>
                                   th.log[k].val = "Message from Notion: " \o th.configs[i].value

\* C3: when a tick is over, every enabled "Check Torrents"/"Task" item it
\* fetched has exactly one getTorrents call and no sendMessage call.
C3_OneListCallAndNoSend ==
    \A t \in Slots :
        LET th == threads[t]
        IN  TickOver(th) =>
                \A i \in DOMAIN th.configs :
                    (/\ th.configs[i].isEnabled
                     /\ th.configs[i].name = "Check Torrents"
                     /\ th.configs[i].type = "Task") =>
                        /\ CountEv(th.log, "getTorrents", i) = 1
                        /\ CountEv(th.log, "sendMessage", i) = 0

\* C4: a tick whose configuration query raised holds an empty list, has ended
\* normally, and has made no call besides the query.
C4_FailedFetchNoSideEffects ==
    \A t \in Slots :
        LET th == threads[t]
        IN  (/\ th.traced /\ th.entry = "tick"
             /\ \E k \in DOMAIN th.log :
                    th.log[k].ev = "query:response" /\ th.log[k].val = "raise") =>
                /\ th.configs = <<>>
                /\ th.pc = "done"
                /\ Len(th.log) = 2

\* C4 witness: the query of a tick raised while the store held an enabled
\* "Check Torrents" task.
C4_Witness ==
    \E t \in Slots :
        LET th == threads[t]
        IN  /\ TickOver(th)
            /\ \E k \in DOMAIN th.log :
                   th.log[k].ev = "query:response" /\ th.log[k].val = "raise"
            /\ Len(store) > 0 /\ store[1].enabled
            /\ store[1].name = "Check Torrents" /\ store[1].type = "Task"

\* C5: when a tick is over, every enabled item it fetched that routes to a
\* client call has had that call made, whatever the earlier items' remote
\* calls answered.
C5_LaterItemsStillRouted ==
    \A t \in Slots :
        LET th == threads[t]
        IN  TickOver(th) =>
                \A i \in DOMAIN th.configs :
                    (/\ th.configs[i].isEnabled
                     /\ \/ th.configs[i].type = "DiscordMessage"
                        \/ th.configs[i].name = "Check Torrents" /\ th.configs[i].type = "Task") =>
                        \E k \in DOMAIN th.log : th.log[k].i = i

\* C6: every call or request a tick makes for an item is made for an item
\* that is "Check Torrents"/"Task" or of type "DiscordMessage"; and a tick
\* that fetched [X/Config, Check Torrents/Task] and is over has made exactly
\* one getTorrents call, for the second item.
C6_OtherItemsAreNoOps ==
    \A t \in Slots :
        LET th == threads[t]
        IN  /\ \A k \in DOMAIN th.log :
                   th.log[k].i \in DOMAIN th.configs =>
                       LET c == th.configs[th.log[k].i]
                       IN  \/ c.name = "Check Torrents" /\ c.type = "Task"
                           \/ c.type = "DiscordMessage"
            /\ (/\ TickOver(th)
                /\ Len(th.configs) = 2
                /\ th.configs[1].name = "X" /\ th.configs[1].type = "Config"
                /\ th.configs[1].isEnabled
                /\ th.configs[2].name = "Check Torrents" /\ th.configs[2].type = "Task"
                /\ th.configs[2].isEnabled) =>
                   /\ CountAll(th.log, "getTorrents") = 1
                   /\ CountEv(th.log, "getTorrents", 2) = 1

\* C6 witness: a tick over [X/Config, Check Torrents/Task] has ended after
\* its one getTorrents call.
C6_Witness ==
    \E t \in Slots :
        LET th == threads[t]
        IN  /\ TickOver(th) /\ th.pc = "done"
            /\ Len(th.configs) = 2
            /\ th.configs[1].name = "X" /\ th.configs[1].type = "Config"
            /\ th.configs[1].isEnabled
            /\ th.configs[2].name = "Check Torrents" /\ th.configs[2].type = "Task"
            /\ th.configs[2].isEnabled
            /\ CountEv(th.log, "getTorrents", 2) = 1

\* C7: a getTorrents call made with the cookie unset issues login next, before
\* any list request; if that login returns false, getTorrents returns the
\* empty list at once, with no list request in between.
C7_LoginFirstAndEmptyOnFailure ==
    \A t \in Slots :
        LET lg == threads[t].log
        IN  \A k \in DOMAIN lg :
                (lg[k].ev = "getTorrents" /\ lg[k].val = Null) =>
                    /\ k + 1 \in DOMAIN lg
                    /\ lg[k + 1].ev = "login"
                    /\ k + 2 \in DOMAIN lg =>
                           /\ lg[k + 2].ev = "login:response"
                           /\ k + 3 \in DOMAIN lg
                           /\ lg[k + 3].ev = "login:return"
                    /\ (k + 3 \in DOMAIN lg /\ lg[k + 3].val = "false") =>
                           /\ k + 4 \in DOMAIN lg
                           /\ lg[k + 4].ev = "getTorrents:return"
                           /\ lg[k + 4].val = "[]"

\* C7 witness: a tick called getTorrents with no cookie, the login failed and
\* getTorrents returned the empty list.
C7_Witness ==
    \E t \in Slots :
        LET lg == threads[t].log
        IN  /\ threads[t].entry = "tick"
            /\ \E k \in DOMAIN lg :
                   /\ lg[k].ev = "getTorrents" /\ lg[k].val = Null
                   /\ k + 4 \in DOMAIN lg
                   /\ lg[k + 3].ev = "login:return" /\ lg[k + 3].val = "false"
                   /\ lg[k + 4].ev = "getTorrents:return" /\ lg[k + 4].val = "[]"

\* C8: one getTorrents or addTorrent call logs in at most once, and not at
\* all when it was made with a cookie held; it issues at most one data
\* request; a data request that raises is the last thing it does before
\* returning the empty list or false.
C8_NoRetryNoRelogin ==
    \A t \in Slots :
        LET th == threads[t]
            lg == th.log
        IN  (th.traced /\ th.entry = "api" /\ Len(lg) > 0
                /\ lg[1].ev \in {"getTorrents", "addTorrent"}) =>
                /\ CountAll(lg, "login") <= 1
                /\ lg[1].val # Null => CountAll(lg, "login") = 0
                /\ CountAll(lg, "list") + CountAll(lg, "add") <= 1
                /\ \A k \in DOMAIN lg :
                       (lg[k].ev \in {"list:response", "add:response"}
                            /\ lg[k].val = "raise") =>
                           /\ th.pc = "done"
                           /\ Len(lg) = k + 1
                           /\ \/ lg[k + 1].ev = "getTorrents:return" /\ lg[k + 1].val = "[]"
                              \/ lg[k + 1].ev = "addTorrent:return" /\ lg[k + 1].val = "false"

\* C8 witness: getTorrents was called with a cookie held, its list request
\* raised, and it returned the empty list.
C8_Witness ==
    \E t \in Slots :
        LET lg == threads[t].log
        IN  /\ threads[t].pc = "done"
            /\ Len(lg) = 4
            /\ lg[1].ev = "getTorrents" /\ lg[1].val # Null
            /\ lg[2].ev = "list"
            /\ lg[3].ev = "list:response" /\ lg[3].val = "raise"
            /\ lg[4].ev = "getTorrents:return" /\ lg[4].val = "[]"

\* C9: addTorrent never raises; it returns true exactly when its add request
\* was answered without raising; called with no cookie, a failed login makes
\* it return false with no add request issued.
C9_AddTorrentResult ==
    \A t \in Slots :
        LET th == threads[t]
            lg == th.log
        IN  (th.traced /\ th.entry = "api" /\ Len(lg) > 0 /\ lg[1].ev = "addTorrent") =>
                /\ th.pc # "raised"
                /\ th.pc = "done" => lg[Len(lg)].ev = "addTorrent:return"
                /\ \A k \in DOMAIN lg :
                       lg[k].ev = "addTorrent:return" =>
                           (lg[k].val = "true" <=>
                               \E j \in 1..(k - 1) :
                                   lg[j].ev = "add:response" /\ lg[j].val = "ok")
                /\ (\E k \in DOMAIN lg : lg[k].ev = "login:return" /\ lg[k].val = "false") =>
                       /\ CountAll(lg, "add") = 0
                       /\ lg[Len(lg)].ev = "addTorrent:return"
                       /\ lg[Len(lg)].val = "false"
                /\ (\E k \in DOMAIN lg : lg[k].ev = "add:response" /\ lg[k].val = "raise") =>
                       /\ lg[Len(lg)].ev = "addTorrent:return"
                       /\ lg[Len(lg)].val = "false"

\* C9 witness: addTorrent, called with no cookie, logged in, had its add
\* request answered and returned true.
C9_Witness ==
    \E t \in Slots :
        LET lg == threads[t].log
        IN  /\ threads[t].pc = "done"
            /\ Len(lg) = 7
            /\ lg[1].ev = "addTorrent" /\ lg[1].val = Null
            /\ lg[4].ev = "login:return" /\ lg[4].val = "true"
            /\ lg[6].ev = "add:response" /\ lg[6].val = "ok"
            /\ lg[7].ev = "addTorrent:return" /\ lg[7].val = "true"

\* C10: a channel fetch or a post is outstanding or recorded only in a state
\* where isReady is true and a channel id is configured; while isReady is
\* false or no channel id is configured, every sendMessage call has returned
\* at once, having fetched and posted nothing.
C10_SendGuardedByReadyAndChannel ==
    \A t \in Slots :
        LET th == threads[t]
            lg == th.log
        IN  /\ th.pc \in {"fetch", "send"} => (isReady /\ config.channelId # "")
            /\ \A k \in DOMAIN lg :
                   lg[k].ev \in {"fetch", "send"} => (isReady /\ config.channelId # "")
            /\ (~isReady \/ config.channelId = "") =>
                   \A k \in DOMAIN lg :
                       lg[k].ev = "sendMessage" =>
                           /\ k + 1 \in DOMAIN lg
                           /\ lg[k + 1].ev = "sendMessage:return"

\* C10 witness: sendMessage was called and returned while isReady was false,
\* with a channel id configured and the gateway still connecting.
C10_Witness ==
    \E t \in Slots :
        LET lg == threads[t].log
        IN  /\ ~isReady /\ config.channelId # "" /\ gateway = "connecting"
            /\ threads[t].pc = "done"
            /\ \E k \in DOMAIN lg :
                   /\ lg[k].ev = "sendMessage"
                   /\ k + 1 \in DOMAIN lg
                   /\ lg[k + 1].ev = "sendMessage:return"

\* C11: a post is issued only right after the channel fetch answered with a
\* text channel; a fetch that raises or answers null or a non-text channel,
\* and a post that raises, are followed at once by the return of sendMessage;
\* one sendMessage call posts at most once.
C11_PostOnlyToTextChannel ==
    \A t \in Slots :
        LET lg == threads[t].log
        IN  \A k \in DOMAIN lg :
                /\ lg[k].ev = "send" =>
                       /\ k > 1
                       /\ lg[k - 1].ev = "fetch:response"
                       /\ lg[k - 1].val = "text"
                /\ (lg[k].ev = "fetch:response" /\ lg[k].val # "text") =>
                       /\ k + 1 \in DOMAIN lg
                       /\ lg[k + 1].ev = "sendMessage:return"
                /\ lg[k].ev = "send:response" =>
                       /\ k + 1 \in DOMAIN lg
                       /\ lg[k + 1].ev = "sendMessage:return"
                /\ lg[k].ev = "sendMessage" =>
                       Cardinality({ j \in DOMAIN lg :
                           j > k /\ lg[j].ev = "send" /\ lg[j].i = lg[k].i }) <= 1

\* C11 witness: with isReady true and a channel id configured, the fetch
\* answered a non-text channel and a tick's sendMessage returned unposted;
\* the tick then ended normally.
C11_Witness ==
    \E t \in Slots :
        LET lg == threads[t].log
        IN  /\ isReady /\ config.channelId # ""
            /\ threads[t].pc = "done" /\ threads[t].entry = "tick"
            /\ \E k \in DOMAIN lg :
                   /\ lg[k].ev = "fetch:response" /\ lg[k].val = "voice"
                   /\ k + 1 \in DOMAIN lg
                   /\ lg[k + 1].ev = "sendMessage:return"
                   /\ CountEv(lg, "send", lg[k].i) = 0

\* C12: isReady starts false; only the 'ready' callback changes it, from
\* false to true, and nothing sets it back; the gateway login is pending
\* only as the constructor left it, never started again.
C12_ReadyWrittenOnce ==
    /\ ~isReady
    /\ [][/\ isReady => isReady'
          /\ isReady' # isReady => (gateway = "connecting" /\ gateway' = "ready")
          /\ gateway' = "connecting" => gateway = "connecting"
          /\ gateway = "none" => gateway' = "none"]_vars

\* C12 witness: the connection was lost after 'ready' and isReady is still true.
C12_Witness == isReady /\ gateway = "closed"

\* the entry after entry k of a log is ev with value val
Then(lg, k, ev, val) ==
    /\ k + 1 \in DOMAIN lg
    /\ lg[k + 1].ev = ev
    /\ lg[k + 1].val = val

\* C13: no call of a public client method ends by raising, and each failure
\* outcome is followed by the documented return: [] from getConfigurations,
\* nothing from addItem and sendMessage, false from login and addTorrent,
\* [] from getTorrents.
C13_ClientCallsReturnNormally ==
    /\ \A t \in Slots : threads[t].pc # "raised"
    /\ \A t \in Slots :
        LET th == threads[t]
            lg == th.log
            call == IF lg = <<>> THEN "none" ELSE lg[1].ev
        IN  \A k \in DOMAIN lg :
              /\ (lg[k].ev = "query:response" /\ lg[k].val = "raise") =>
                     Then(lg, k, "getConfigurations:return", "[]")
              /\ (lg[k].ev = "create:response" /\ lg[k].val = "raise") =>
                     Then(lg, k, "addItem:return", "void")
              /\ (lg[k].ev = "fetch:response" /\ lg[k].val # "text") =>
                     Then(lg, k, "sendMessage:return", "void")
              /\ (lg[k].ev = "send:response" /\ lg[k].val = "raise") =>
                     Then(lg, k, "sendMessage:return", "void")
              /\ (lg[k].ev = "login:response" /\ lg[k].val # "cookie") =>
                     Then(lg, k, "login:return", "false")
              /\ (lg[k].ev = "login:return" /\ lg[k].val = "false") =>
                     CASE call = "getTorrents" -> Then(lg, k, "getTorrents:return", "[]")
                       [] call = "addTorrent"  -> Then(lg, k, "addTorrent:return", "false")
                       [] OTHER -> k = Len(lg) /\ th.pc = "done"
              /\ (lg[k].ev = "list:response" /\ lg[k].val = "raise") =>
                     Then(lg, k, "getTorrents:return", "[]")
              /\ (lg[k].ev = "add:response" /\ lg[k].val = "raise") =>
                     Then(lg, k, "addTorrent:return", "false")
              /\ lg[k].ev = "add:skipped" =>
                     Then(lg, k, "addTorrent:return", "false")

\* C13 witness: a direct call of addItem whose pages.create raised has
\* returned, and the database holds no page.
C13_Witness ==
    \E t \in Slots :
        LET lg == threads[t].log
        IN  /\ threads[t].pc = "done"
            /\ store = <<>>
            /\ Len(lg) = 3
            /\ lg[1].ev = "addItem"
            /\ lg[2].ev = "create:response" /\ lg[2].val = "raise"
            /\ lg[3].ev = "addItem:return"

\* C14: once the download manager accepts logins and keeps its sessions, a
\* tick that fires after a list request was refused for an expired session
\* has each of its own list requests answered.
C14_LaterTickListsAgain ==
    \A t \in Slots :
        LET lg == threads[t].log
        IN  \A k \in DOMAIN lg :
                lg[k].ev = "list:response" => lg[k].val # "raise"

\* the events of a log that are remote calls, and those that are their answers
IsRemoteCall(ev) == ev \in {"query", "login", "list", "fetch", "send"}

IsResponse(ev) ==
    ev \in {"query:response", "login:response", "list:response",
            "fetch:response", "send:response"}

IsRemote(e) == IsRemoteCall(e.ev) \/ IsResponse(e.ev)

\* an entry as two ticks are compared by: a call by what it is and the item
\* it is for, an answer by its value too
Key(e) ==
    IF IsResponse(e.ev) \/ e.ev \in {"login:return", "getTorrents:return"}
    THEN [ev |-> e.ev, i |-> e.i, val |-> e.val, seen |-> ""]
    ELSE [ev |-> e.ev, i |-> e.i, val |-> "", seen |-> e.seen]

\* k is the first position where the sequences a and b differ
FirstDifference(a, b, k) ==
    /\ k <= Len(a) /\ k <= Len(b)
    /\ \A j \in 1..(k - 1) : Key(a[j]) = Key(b[j])
    /\ Key(a[k]) # Key(b[k])

\* a is b cut short
StrictPrefix(a, b) ==
    /\ Len(a) < Len(b)
    /\ \A j \in 1..Len(a) : Key(a[j]) = Key(b[j])

\* two activations of the callback that were handed the same items
SameItems(t, u) ==
    /\ t # u
    /\ threads[t].entry = "tick" /\ threads[u].entry = "tick"
    /\ threads[t].configs = threads[u].configs

\* C15 as stated: of two ticks that fetched the same items, the remote calls
\* and answers differ first at an answer, and a tick that is over did not
\* stop where the other went on to a call.
C15_CallsDeterminedByItemsAndResponses ==
    \A t, u \in Slots :
        SameItems(t, u) =>
            LET a == SelectSeq(threads[t].log, IsRemote)
                b == SelectSeq(threads[u].log, IsRemote)
            IN  /\ \A k \in 1..Len(a) :
                       FirstDifference(a, b, k) =>
                           IsResponse(a[k].ev) /\ IsResponse(b[k].ev)
                /\ threads[t].pc \in {"done", "raised"} => ~StrictPrefix(a, b)

\* C15 amended: of two ticks that fetched the same items, the histories
\* differ first at an answer of a remote, or at a call of getTorrents or of
\* sendMessage that read another value of the cookie or of the ready flag;
\* and a tick that is over did not stop where the other went on.
C15_CallsDeterminedAlsoByHeldState ==
    \A t, u \in Slots :
        SameItems(t, u) =>
            LET a == threads[t].log
                b == threads[u].log
            IN  /\ \A k \in 1..Len(a) :
                       FirstDifference(a, b, k) =>
                           \/ IsResponse(a[k].ev) /\ IsResponse(b[k].ev)
                           \/ /\ a[k].ev = b[k].ev
                              /\ a[k].ev \in {"getTorrents", "sendMessage"}
                              /\ a[k].i = b[k].i
                              /\ a[k].seen # b[k].seen
                /\ threads[t].pc \in {"done", "raised"} => ~StrictPrefix(a, b)

\* C15 witness: two ticks that fetched the same two items are over; one
\* called getTorrents without a session and logged in, the other called it
\* with the session the first had left and went straight to the list request.
C15_Witness ==
    \E t, u \in Slots :
        /\ SameItems(t, u)
        /\ Len(threads[t].configs) = 2
        /\ threads[t].pc = "done" /\ threads[u].pc = "done"
        /\ \E k \in DOMAIN threads[t].log :
               /\ FirstDifference(threads[t].log, threads[u].log, k)
               /\ threads[t].log[k].ev = "getTorrents"
               /\ threads[t].log[k].seen = "no session"
               /\ threads[u].log[k].seen = "session"
               /\ threads[t].log[k + 1].ev = "login"
               /\ threads[u].log[k + 1].ev = "list"

\* C16: in every interleaving of ticks and completions of remote calls, at
\* most one login request is in flight.
C16_AtMostOneLoginInFlight ==
    Cardinality({ t \in Slots : threads[t].pc = "login" }) <= 1

\* C17: an activation whose remote call never returns stays where it is;
\* the cookie changes only when a login is answered and the ready flag only
\* on the gateway's 'ready'; and every other slot goes on firing ticks that
\* issue their query and run to the end of their routing.
C17_HungCallStallsOnlyItsTick ==
    /\ [][/\ \A t \in Slots : threads[t].pc = "hung" => threads'[t] = threads[t]
          /\ cookie' # cookie =>
                 \E t \in Slots : threads[t].pc = "login" /\ threads'[t] # threads[t]
          /\ isReady' # isReady => (gateway = "connecting" /\ gateway' = "ready")]_vars
    /\ \A t \in Slots \ {1} :
          /\ []<>(threads[t].pc = "query")
          /\ []<>(threads[t].entry = "tick" /\ threads[t].pc \in {"done", "raised"})

\* C17 witness: the first activation hangs on its login, the cookie is still
\* unset, and a later tick has fetched two items and routed them to the end.
C17_Witness ==
    /\ threads[1].pc = "hung" /\ threads[1].op = "getTorrents"
    /\ cookie = Null
    /\ \E t \in Slots \ {1} :
          /\ threads[t].entry = "tick" /\ threads[t].pc = "done"
          /\ Len(threads[t].configs) = 2
          /\ threads[t].idx = 3

\* the remote calls and client calls of a tick that are made for an item
ItemEvents == { "getTorrents", "login", "list", "sendMessage", "fetch", "send" }

\* entry k of a log records a side effect of its item that was not performed
Dropped(lg, k) ==
    \/ lg[k].ev = "sendMessage" /\ lg[k].seen = "not ready"
    \/ lg[k].ev \in {"fetch:response", "send:response", "list:response"} /\ lg[k].val = "raise"
    \/ lg[k].ev = "login:response" /\ lg[k].val # "cookie"

\* C18: within a tick each call and each remote request is made at most once
\* for an item, and none is made for an item after one of its side effects
\* was dropped or failed; an activation that is over does nothing more, the
\* slot changing only by the start of a new tick with an empty history.
C18_AtMostOnceNoReplay ==
    /\ [](\A t \in Slots :
            LET lg == threads[t].log
            IN  threads[t].entry = "tick" =>
                  /\ \A k \in DOMAIN lg :
                        /\ lg[k].ev \in ItemEvents => CountEv(lg, lg[k].ev, lg[k].i) = 1
                        /\ Dropped(lg, k) =>
                              \A j \in DOMAIN lg :
                                  (j > k /\ lg[j].i = lg[k].i) =>
                                      lg[j].ev \in {"login:return", "getTorrents:return",
                                                    "sendMessage:return"})
    /\ [][\A t \in Slots :
            (threads[t].pc \in {"done", "raised"} /\ threads'[t] # threads[t]) =>
                /\ threads'[t].pc = "query"
                /\ threads'[t].configs = <<>>
                /\ Len(threads'[t].log) <= 1]_vars

\* C18 witness: a tick is over whose post for its second item raised: that
\* item has one post request in the history, and it was the last request.
C18_Witness ==
    \E t \in Slots :
        LET lg == threads[t].log
        IN  /\ TickOver(threads[t])
            /\ \E k \in DOMAIN lg :
                   /\ lg[k].ev = "send:response" /\ lg[k].val = "raise" /\ lg[k].i = 2
                   /\ CountEv(lg, "send", 2) = 1
                   /\ k + 1 = Len(lg)

\* C19: no step changes the store, and an activation of the callback is only
\* ever inside getConfigurations, getTorrents or sendMessage: its history
\* holds no call of addItem or addTorrent and no request of theirs.
C19_TicksOnlyReadAndNotify ==
    /\ [][store' = store]_vars
    /\ [](\A t \in Slots :
            /\ threads[t].op \in {"none", "getConfigurations", "getTorrents", "sendMessage"}
            /\ threads[t].pc \notin {"add", "create"}
            /\ \A k \in DOMAIN threads[t].log :
                   threads[t].log[k].ev \notin
                       {"addItem", "create", "addTorrent", "add", "add:skipped"})

\* C19 witness: a tick that called getTorrents for its first item and
\* sendMessage for its second is over, and the store holds its two pages.
C19_Witness ==
    \E t \in Slots :
        /\ TickOver(threads[t])
        /\ Len(store) = 2
        /\ CountEv(threads[t].log, "getTorrents", 1) = 1
        /\ CountEv(threads[t].log, "sendMessage", 2) = 1
        /\ CountEv(threads[t].log, "send", 2) = 1

\* when a query is answered, the list the tick goes on with is made of the
\* pages the store holds at that moment
FreshListEachTick ==
    [][\A t \in Slots :
          (threads[t].entry = "tick" /\ threads[t].pc = "query" /\ threads'[t].pc # "query") =>
              \/ threads'[t].configs = <<>>
              \/ /\ Len(threads'[t].configs) <= Len(store)
                 /\ \A i \in DOMAIN threads'[t].configs :
                        LET c == threads'[t].configs[i]
                        IN  /\ c.id \in DOMAIN store
                            /\ c.value = store[c.id].value
                            /\ c.isEnabled = store[c.id].enabled]_vars

\* C20: a tick has exactly one query in its history, makes calls only for
\* items of the list that query returned, and when it is over it has gone
\* through that whole list, each enabled message having its one sendMessage
\* call with the value fetched and each enabled Check Torrents task its one
\* getTorrents call.
C20_OneQueryAndReturnedItemsRouted ==
    \A t \in Slots :
        LET th == threads[t]
        IN  (th.traced /\ th.entry = "tick") =>
              /\ CountAll(th.log, "query") = 1
              /\ \A k \in DOMAIN th.log : th.log[k].i \in 0..Len(th.configs)
              /\ TickOver(th) =>
                    /\ th.idx = Len(th.configs) + 1
                    /\ \A i \in DOMAIN th.configs :
                          LET c == th.configs[i]
                          IN  /\ (c.isEnabled /\ c.type = "DiscordMessage") =>
                                    \E k \in DOMAIN th.log :
                                        /\ th.log[k].ev = "sendMessage" /\ th.log[k].i = i
                                        /\ th.log[k].val = Label \o c.value
                              /\ (c.isEnabled /\ c.name = "Check Torrents" /\ c.type = "Task") =>
                                    CountEv(th.log, "getTorrents", i) = 1

\* C21: when a call of getConfigurations has returned, the list it returned
\* has one item per page of the store whose Enabled is true, in the order of
\* the store, none for any other page, and every item has isEnabled true.
C21_OneItemPerEnabledRecord ==
    \A t \in Slots :
        LET th == threads[t]
            enabled == EnabledPositions(store, 1)
        IN  (th.traced /\ th.entry = "api" /\ th.pc = "done"
                /\ th.log[1].ev = "query") =>
                /\ Len(th.configs) = Len(enabled)
                /\ \A k \in DOMAIN th.configs :
                       /\ th.configs[k].id = enabled[k]
                       /\ th.configs[k].isEnabled

\* C22: when addItem succeeded and the getConfigurations that followed it
\* has returned, the list it returned holds an item with the name and value
\* given to addItem, the type given ("Info" when none was), and isEnabled
\* true.
C22_AddedItemComesBack ==
    \A t \in Slots :
        LET th == threads[t]
            lg == th.log
        IN  (th.traced /\ th.entry = "add then get" /\ th.pc = "done"
                /\ lg[2].ev = "create:response" /\ lg[2].val = "ok") =>
                \E j \in DOMAIN th.configs :
                    /\ th.configs[j].name = lg[1].val
                    /\ th.configs[j].value = th.item.value
                    /\ th.configs[j].type = IF lg[1].seen = Omitted THEN "Info" ELSE lg[1].seen
                    /\ th.configs[j].isEnabled

\* C23: with no token configured the gateway login is never started, isReady
\* is false, no activation awaits a channel fetch or a post or has made one,
\* and every sendMessage call of a tick is followed at once by its return.
C23_NoTokenNoSend ==
    config.token = "" =>
        /\ gateway = "none"
        /\ ~isReady
        /\ \A t \in Slots :
              LET lg == threads[t].log
              IN  /\ threads[t].pc \notin {"fetch", "send"}
                  /\ \A k \in DOMAIN lg :
                        /\ lg[k].ev \notin {"fetch", "send"}
                        /\ lg[k].ev = "sendMessage" =>
                               /\ lg[k].seen = "not ready"
                               /\ Then(lg, k, "sendMessage:return", "void")

\* C23 witness: with no token configured, a tick is over that had its list
\* request answered for its first item and its sendMessage skipped for its
\* second.
C23_Witness ==
    /\ config.token = ""
    /\ \E t \in Slots :
          LET lg == threads[t].log
          IN  /\ TickOver(threads[t]) /\ threads[t].pc = "done"
              /\ \E k \in DOMAIN lg :
                     lg[k].ev = "list:response" /\ lg[k].i = 1 /\ lg[k].val = "[a]"
              /\ \E k \in DOMAIN lg :
                     /\ lg[k].ev = "sendMessage" /\ lg[k].i = 2
                     /\ Then(lg, k, "sendMessage:return", "void")

\* C24: once the cookie holds a non-empty value no step of a tick changes
\* it, and no getTorrents call made with it held is followed by a login.
C24_CookieKeptOnceSet ==
    /\ [][Truthy(cookie) => cookie' = cookie]_vars
    /\ [](\A t \in Slots :
            LET lg == threads[t].log
            IN  \A k \in DOMAIN lg :
                    (lg[k].ev = "getTorrents" /\ lg[k].seen = "session") =>
                        CountEv(lg, "login", lg[k].i) = 0)

\* C25: a login whose request raised or whose answer had no set-cookie header
\* leaves the cookie as it was, unset if it was unset; and every getTorrents
\* or addTorrent call that finds the cookie unset issues a login, whatever
\* logins failed before it.
C25_FailedLoginIsRetried ==
    /\ [][\A t \in Slots :
            LET lg == threads[t].log
                n == Len(lg) + 1
            IN  (/\ threads[t].pc = "login"
                 /\ Len(threads'[t].log) >= n
                 /\ threads'[t].log[n].ev = "login:response"
                 /\ threads'[t].log[n].val \in {"raise", "no set-cookie"}) =>
                    cookie' = cookie]_vars
    /\ [](\A t \in Slots :
            LET lg == threads[t].log
            IN  \A k \in DOMAIN lg :
                    (lg[k].ev \in {"getTorrents", "addTorrent"} /\ lg[k].val = Null) =>
                        /\ k + 1 \in DOMAIN lg
                        /\ lg[k + 1].ev = "login"
                        /\ lg[k + 1].i = lg[k].i)

\* C25 witness: in one tick the login made for the first item raised, the
\* cookie is still unset, and getTorrents for the second item logged in
\* again.
C25_Witness ==
    \E t \in Slots :
        LET lg == threads[t].log
        IN  /\ threads[t].entry = "tick"
            /\ cookie = Null
            /\ \E k \in DOMAIN lg :
                   lg[k].ev = "login:response" /\ lg[k].i = 1 /\ lg[k].val = "raise"
            /\ \E k \in DOMAIN lg :
                   /\ lg[k].ev = "getTorrents" /\ lg[k].i = 2 /\ lg[k].val = Null
                   /\ Then(lg, k, "login", "")

\* C26: after login was called on both builds with the same answers, both
\* returned the same boolean and hold the same cookie, and the boolean is
\* true only if the cookie held is neither null nor empty.
C26_BuildsAgreeOnLogin ==
    twin.done > 0 =>
        /\ twin.ts = twin.js
        /\ twin.cookie = cookie
        /\ twin.ts => Truthy(cookie)
        /\ twin.js => (Truthy(twin.cookie) /\ twin.cookie # Undefined)

\* C27: along the history of a tick the item index never decreases, every
\* remote request is followed by its own answer before anything else, and a
\* request with no answer yet is the one the activation awaits.
C27_OneItemAtATimeInOrder ==
    \A t \in Slots :
        LET th == threads[t]
            lg == th.log
        IN  (th.traced /\ th.entry = "tick") =>
                \A k \in DOMAIN lg :
                    /\ k < Len(lg) => lg[k].i <= lg[k + 1].i
                    /\ IsRemoteCall(lg[k].ev) =>
                          IF k < Len(lg)
                          THEN /\ lg[k + 1].ev = lg[k].ev \o ":response"
                               /\ lg[k + 1].i = lg[k].i
                          ELSE th.pc = lg[k].ev

\* C27 witness: a tick is over in which the post for item 1 was answered
\* before getTorrents was called for item 2, whose list request was answered.
C27_Witness ==
    \E t \in Slots :
        LET lg == threads[t].log
        IN  /\ TickOver(threads[t])
            /\ \E k \in DOMAIN lg :
                   /\ lg[k].ev = "send:response" /\ lg[k].i = 1
                   /\ k + 2 \in DOMAIN lg
                   /\ lg[k + 1].ev = "sendMessage:return" /\ lg[k + 1].i = 1
                   /\ lg[k + 2].ev = "getTorrents" /\ lg[k + 2].i = 2
                   /\ \E j \in DOMAIN lg : j > k + 2 /\ lg[j].ev = "list:response"

\* the enabled DiscordMessage items of a list of configurations
MessageItems(configs) ==
    { i \in DOMAIN configs : configs[i].isEnabled /\ configs[i].type = "DiscordMessage" }

\* C28: every tick that is over, whatever ticks came before it, has as many
\* sendMessage calls in its history as its query returned enabled
\* DiscordMessage items, one for each of them.
C28_MessageSentOnEveryTick ==
    \A t \in Slots :
        LET th == threads[t]
        IN  TickOver(th) =>
                /\ CountAll(th.log, "sendMessage") = Cardinality(MessageItems(th.configs))
                /\ \A i \in MessageItems(th.configs) : CountEv(th.log, "sendMessage", i) = 1

\* the part of C28 that holds: a tick that ends without raising has made
\* one sendMessage call per enabled DiscordMessage item, with or without a
\* session held from an earlier tick
SentOnEveryTickThatReturns ==
    \A t \in Slots :
        LET th == threads[t]
        IN  (TickOver(th) /\ th.pc = "done") =>
                /\ CountAll(th.log, "sendMessage") = Cardinality(MessageItems(th.configs))
                /\ \A i \in MessageItems(th.configs) : CountEv(th.log, "sendMessage", i) = 1

----------------------------------------------------------------------------
(* The dispatcher under fair ticks, with Discord configured *)

\* the message page that stays enabled
Message == Page("X", "hello", "DiscordMessage", TRUE)

\* the query is answered with the enabled pages
QueryFiltered(t) ==
    /\ threads[t].pc = "query"
    /\ QueryAnswer(t, "filtered")
    /\ UNCHANGED <<twin, server, observed, store, config, cookie, isReady, gateway>>

\* client.channels.fetch resolves to a text channel
FetchText(t) ==
    /\ threads[t].pc = "fetch"
    /\ threads' = [threads EXCEPT ![t] = AfterFetch(threads[t], "text", cookie)]
    /\ UNCHANGED <<twin, server, observed, store, config, cookie, isReady, gateway>>

\* the database holds the enabled message and is not edited, the token and
\* the channel id are configured; no history is kept
InitPost ==
    /\ store \in { st \in Stores : \E k \in DOMAIN st : st[k] = Message }
    /\ config = [token |-> "tok", channelId |-> "chan"]
    /\ cookie = Null
    /\ isReady = FALSE
    /\ gateway = "connecting"
    /\ threads = [t \in Slots |-> Idle]
    /\ server = ServerUp
    /\ twin = NoTwin
    /\ observed = {}

NextPost ==
    \/ \E t \in Slots : Tick(t)
    \/ \E t \in Slots : QueryFiltered(t)
    \/ \E t \in Slots : LoginReturn(t)
    \/ \E t \in Slots : ListReturn(t)
    \/ \E t \in Slots : FetchText(t)
    \/ \E t \in Slots : SendReturn(t)
    \/ GatewayReady

\* cron fires every minute, every remote call is answered, and the gateway
\* emits 'ready'
FairTicks ==
    /\ WF_vars(GatewayReady)
    /\ \A t \in Slots :
        /\ WF_vars(Tick(t))
        /\ WF_vars(QueryFiltered(t))
        /\ WF_vars(LoginReturn(t))
        /\ WF_vars(ListReturn(t))
        /\ WF_vars(FetchText(t))
        /\ WF_vars(SendReturn(t))

SpecPost == InitPost /\ [][NextPost]_vars /\ FairTicks

\* channel.send has been called with the message and is awaited
Posted ==
    \E t \in Slots :
        /\ threads[t].pc = "send"
        /\ threads[t].configs[threads[t].idx] = MapPage(threads[t].configs[threads[t].idx].id, Message)

\* an activation starts a channel fetch or a post only when the flag is set,
\* and the step that sets the flag starts none
NothingPostedBeforeReady ==
    [][/\ \A t \in Slots :
             (threads'[t] # threads[t] /\ threads'[t].pc \in {"fetch", "send"}) => isReady
       /\ isReady' # isReady => threads' = threads]_vars

\* C29: with the channel id configured and resolving to a text channel, the
\* message page enabled, ticks fired fairly and 'ready' emitted, the message
\* is eventually posted; no fetch or post is started while the flag is unset,
\* and setting the flag starts none.
C29_EventuallyPosted == (<>Posted) /\ NothingPostedBeforeReady

\* the part of C29 that holds: the message is eventually posted unless ticks
\* raise again and again
PostedUnlessTicksRaise ==
    (<>Posted) \/ ([]<>(\E t \in Slots : threads[t].pc = "raised"))

----------------------------------------------------------------------------
(* The dispatcher over pages with properties left empty *)

\* enabled pages with no title, no text or no select ("" stands for the
\* property left empty), next to a Check Torrents task
PagesWithGaps ==
    { Page("", "", "", TRUE),
      Page("Check Torrents", "", "", TRUE),
      Page("X", "", "DiscordMessage", TRUE),
      Page("", "hello", "DiscordMessage", TRUE),
      Page("Check Torrents", "", "Task", TRUE) }

InitGaps ==
    /\ store \in SeqsUpTo(PagesWithGaps, MaxPages) \ { <<>> }
    /\ config = [token |-> "tok", channelId |-> "chan"]
    /\ cookie = Null
    /\ isReady = FALSE
    /\ gateway = "connecting"
    /\ threads = [t \in Slots |-> Idle]
    /\ server = ServerUp
    /\ twin = NoTwin
    /\ observed = {1}

SpecGaps == InitGaps /\ [][Next]_vars

\* the items of a tick carry the defaults for the properties their pages
\* leave empty
DefaultsSubstituted(th) ==
    \A i \in DOMAIN th.configs :
        LET c  == th.configs[i]
            pg == store[c.id]
        IN  /\ c.name = (IF pg.name = "" THEN "Untitled" ELSE pg.name)
            /\ c.value = pg.value
            /\ c.type = (IF pg.type = "" THEN "Unknown" ELSE pg.type)

\* what the loop has done for item i: nothing for an enabled item whose page
\* has no Type, one sendMessage of the bare label for an enabled
\* DiscordMessage item whose page has no Value
RoutedByDefaults(th, i) ==
    LET c  == th.configs[i]
        pg == store[c.id]
    IN  /\ (c.isEnabled /\ pg.type = "") =>
               \A k \in DOMAIN th.log : th.log[k].i # i
        /\ (c.isEnabled /\ pg.type = "DiscordMessage" /\ pg.value = "") =>
               /\ CountEv(th.log, "sendMessage", i) = 1
               /\ \A k \in DOMAIN th.log :
                      (th.log[k].ev = "sendMessage" /\ th.log[k].i = i) =>
                          th.log[k].val = "Message from Notion: "

\* C30: the items of a tick have "Untitled" for a page with no title, "" for
\* no text and "Unknown" for no select; when the tick is over, an enabled
\* item whose page has no Type has no call in the history, and an enabled
\* DiscordMessage item whose page has no Value has exactly one sendMessage
\* call, whose text is exactly "Message from Notion: ".
C30_DefaultsAndTheirRouting ==
    \A t \in Slots :
        LET th == threads[t]
        IN  (th.traced /\ th.entry = "tick") =>
                /\ DefaultsSubstituted(th)
                /\ TickOver(th) => \A i \in DOMAIN th.configs : RoutedByDefaults(th, i)

\* the part of C30 that holds: the defaults are substituted, and every item
\* the loop has gone past is routed by them
DefaultsRoutedWhenReached ==
    \A t \in Slots :
        LET th == threads[t]
        IN  (th.traced /\ th.entry = "tick") =>
                /\ DefaultsSubstituted(th)
                /\ \A i \in DOMAIN th.configs : i < th.idx => RoutedByDefaults(th, i)

\* a tick is over that sent the bare label for a page with no Value and made
\* no call for a page with no Type
DefaultsReached ==
    \E t \in Slots :
        LET th == threads[t]
        IN  /\ TickOver(th) /\ th.pc = "done" /\ Len(th.configs) = 2
            /\ store[th.configs[1].id].type = "" /\ th.configs[1].type = "Unknown"
            /\ store[th.configs[2].id].value = "" /\ th.configs[2].type = "DiscordMessage"
            /\ \E k \in DOMAIN th.log :
                   th.log[k].ev = "send" /\ th.log[k].i = 2

====
